---- MODULE Spec2Model ----
(***************************************************************************)
(* Model of scraper.pool.PagePool (src/src/scraper/pool.py): a bounded     *)
(* pool of browser pages over a browser context that is replaced after a   *)
(* budget of acquisitions.                                                 *)
(*                                                                         *)
(* The pool runs on one asyncio event loop: a coroutine runs without       *)
(* interruption from one suspension point to the next.  Every action below *)
(* is one such run.  The suspension points are the waits for the pool's    *)
(* asyncio.Lock (a FIFO lock: release hands it to the first waiter), the   *)
(* browser I/O calls (new_page, page.close, page.goto, context.close,      *)
(* new_context) and free_pages.get()/put() on an empty/full queue.         *)
(*                                                                         *)
(* Browser side, as the Playwright API behaves: closing a context closes   *)
(* every page of it; page.close() on a closed page is a no-op; page.goto   *)
(* on a closed page raises; any navigation may also fail transiently.      *)
(*                                                                         *)
(* The second part models the Celery worker of src/src/scraper/celery.py:  *)
(* worker threads that run ensure_initialized and the task entry points,   *)
(* each of which hands one coroutine to the background loop and waits for  *)
(* it.  Threads are preemptive: an action is one step of one thread        *)
(* between two accesses to shared state.  Celery side, as the library      *)
(* behaves: self.retry(exc=e) always raises; while request.retries is      *)
(* below max_retries it re-enqueues the task with retries + 1, otherwise   *)
(* it raises e and the task fails.  Database side, as psycopg behaves: a   *)
(* connection is not in autocommit mode, rows written by conn.execute are  *)
(* visible only after conn.commit(), conn.rollback() discards them, and    *)
(* the pool's connection scope commits on a normal exit and rolls back on  *)
(* an exception.                                                           *)
(*                                                                         *)
(* The third part models the crawl frontiers of                            *)
(* src/src/scraper/frontier.py and src/src/scraper/top_events_frontier.py  *)
(* over their Redis visited sets, first with crawl runs made one after     *)
(* another, then with runs in processes of their own whose Redis commands  *)
(* interleave (each command is atomic in Redis, a sequence of commands is  *)
(* not).                                                                   *)
(*                                                                         *)
(* The fourth part models shutdown_worker of celery.py and the cleanup()   *)
(* coroutine it waits for, and the rows of the database as the insert      *)
(* functions of src/src/scraper/db_ops.py write them: every table has a    *)
(* primary key (src/src/db/migrations/__init__.py) and INSERT ... ON       *)
(* CONFLICT leaves or updates the row that has the key.                    *)
(***************************************************************************)
EXTENDS Integers, Sequences, FiniteSets

\* ---------------------------------------------------------------- bounds
NProcs == 3          \* coroutines that use the pool concurrently
MaxCalls == 4        \* get_page calls made in one run
MaxPagesB == 2       \* largest max_amount_of_concurrent_pages tried
MaxBudget == 2       \* largest maximum_operations_per_context tried

Procs == 1..NProcs
NoProc == 0
NoPage == 0

VARIABLES
  max_amount_of_concurrent_pages,        \* self.max_amount_of_concurrent_pages
  initial_page_size,                     \* self.initial_page_size
  minimum_page_size,                     \* self.minimum_page_size
  max_operations_per_context,            \* self.max_operations_per_context
  free_pages,                            \* self.free_pages (asyncio.Queue), a sequence of page ids
  current_page_count,                    \* self.current_page_count
  operation_amount_in_current_context,   \* self.operation_amount_in_current_context
  browser_context,                       \* self.browser_context, as a generation number
  page_ctx,                              \* page id -> generation of the context that created it
  closed,                                \* page ids whose page is closed in the browser
  lock_owner,                            \* self._lock: the coroutine holding it, or NoProc
  lock_waiters,                          \* self._lock: FIFO of coroutines waiting for it
  pc,                                    \* each coroutine's suspension point
  page,                                  \* get_page's local `page` / release's argument
  release_calls,                         \* history: release() calls made for this scope
  late,                                  \* history: the call began after shutdown finished
  sd_pc,                                 \* the shutdown coroutine (close_all_pages)
  calls,                                 \* history: get_page calls made so far
  gen_acquisitions                       \* history: acquires admitted on the current context

pool_vars == << max_amount_of_concurrent_pages, initial_page_size, minimum_page_size,
                max_operations_per_context, free_pages, current_page_count,
                operation_amount_in_current_context, browser_context, page_ctx, closed,
                lock_owner, lock_waiters, pc, page, release_calls, late, sd_pc,
                calls, gen_acquisitions >>

VARIABLES
  is_initialized,     \* _is_initialized
  init_lock,          \* _init_lock: the thread holding it, or NoThread
  globals,            \* event_loop, playwright_instance, browser, page_pool, db_pool:
                      \* whether each is set (FALSE: the global is None)
  boot_step,          \* place of the running bootstrap in BootSequence (0: none runs)
  bootstraps,         \* history: bootstrap sequences begun
  boot_failures,      \* history: bootstrap sequences that raised
  started,            \* history: how many of each resource the process has created
  init_worker_called, \* the worker_process_init signal was delivered
  tpc,                \* each worker thread's position
  cur,                \* the task a thread runs (NoTask: none, or the init_worker call)
  op_step,            \* the step of the task's coroutine that runs next
  tx,                 \* rows written on the thread's connection and not yet committed
  init_failed,        \* history: ensure_initialized raised in the thread's current attempt
  task_kind,          \* each task's entry point
  status,             \* each task: queued, running, success, noop, failure
  retries,            \* each task's request.retries
  attempts,           \* history: times each task was started
  only_transient,     \* history: every attempt so far ended in a transient operation error
  veto_raised,        \* history: an attempt of the task ended in VetoBoxNotFoundError
  rolled_back,        \* history: an attempt of the task failed after it had written rows
  worker_up,          \* no exception has left a signal handler of the process
  store               \* committed rows, as << task, attempt, row >>

worker_vars == << is_initialized, init_lock, globals, boot_step, bootstraps,
                  boot_failures, started, init_worker_called, tpc, cur, op_step,
                  tx, init_failed, task_kind, status, retries, attempts,
                  only_transient, veto_raised, rolled_back, worker_up, store >>

VARIABLES
  visited,            \* the Redis visited sets, by key
  ever_visited,       \* history: every URL that was ever added to each set
  enqueued,           \* tasks sent with .delay(), counted by visited key and URL
  f_phase,            \* the crawl run: none, links (on a listing page), done
  f_kind,             \* the crawler of the run
  f_force,            \* args.force of the run
  f_links,            \* links of the listing page not yet looked at
  f_pages,            \* listing pages the run has opened
  f_ctl,              \* the pagination-next control of the page shown
  f_parsed,           \* history: listing pages whose links the run has gone through
  f_skipped,          \* history: links the run has skipped as visited
  f_start,            \* history: the run's visited set when its crawl began
  f_found,            \* history: item URLs the run has looked at
  f_count,            \* history: links the run has looked at
  f_new,              \* history: tasks the run has enqueued
  f_runs              \* history: runs started

frontier_vars == << visited, ever_visited, enqueued, f_phase, f_kind, f_force,
                    f_links, f_pages, f_ctl, f_parsed, f_skipped, f_start, f_found,
                    f_count, f_new, f_runs >>

VARIABLES
  ws_pc,              \* shutdown_worker: idle (not called), wait, stop, returned
  cleanup_pc,         \* the step of cleanup() that runs next (0: cleanup was not submitted)
  cleanup_out,        \* cleanup(): none, running, done, raised, hung
  ws_closed,          \* the resources cleanup() has closed
  ws_failed,          \* the resources whose close raised
  loop_stopped,       \* event_loop.stop was scheduled
  thread_joined,      \* loop_thread.join returned
  ws_logged,          \* "Error during shutdown" was logged
  ws_raised           \* an exception left shutdown_worker

shutdown_vars == << ws_pc, cleanup_pc, cleanup_out, ws_closed, ws_failed, loop_stopped,
                    thread_joined, ws_logged, ws_raised >>

VARIABLES
  db,                 \* the committed rows of the database, by table and key
  s_pc,               \* the task on the connection: idle, run
  s_item,             \* the URL the task was given
  s_kind,             \* the task's entry point
  s_ver,              \* the content of the page as the task extracts it
  s_step,             \* the insert of the task that runs next
  s_tx,               \* the rows as the task's open transaction sees them
  s_done,             \* history: the content each task message was last committed with
  s_count,            \* history: task messages delivered
  s_commits,          \* history: transactions committed
  s_again             \* history: messages committed again with the content of before

store_vars == << db, s_pc, s_item, s_kind, s_ver, s_step, s_tx, s_done, s_count,
                 s_commits, s_again >>

VARIABLES
  c_pc,               \* each overlapping crawl run: idle, check, mark, delay, done
  c_kind,             \* the crawler of each run
  c_force,            \* args.force of each run
  c_clear,            \* args.clear_visited of each run
  c_links,            \* links of the run's listing page not yet finished
  c_pages,            \* listing pages the run has opened
  c_marked,           \* history: the run has added its current link to the set
  c_found             \* history: item URLs each run has found on its pages

crawler_vars == << c_pc, c_kind, c_force, c_clear, c_links, c_pages, c_marked,
                   c_found >>

\* What a crawl run keeps for itself in the sequential model; the visited
\* sets and the task queue are shared by every run.
VARIABLES
  fm_pc,              \* process_full_match coroutines: where each one is
  fm_holds,           \* whether the coroutine is inside a get_page scope with a page
  map_pc,             \* process_map_with_page coroutines of each gather
  pool_limit          \* max_amount_of_concurrent_pages of the worker's pool

scope_vars == << fm_pc, fm_holds, map_pc, pool_limit >>

run_vars == << f_phase, f_kind, f_force, f_links, f_pages, f_ctl, f_parsed,
               f_skipped, f_start, f_found, f_count, f_new, f_runs >>

vars == << pool_vars, worker_vars, frontier_vars, crawler_vars, shutdown_vars,
          store_vars, scope_vars >>

non_pool_vars == << worker_vars, frontier_vars, crawler_vars, shutdown_vars, store_vars,
                   scope_vars >>

non_worker_vars == << pool_vars, frontier_vars, crawler_vars, shutdown_vars, store_vars,
                     scope_vars >>

non_frontier_vars == << pool_vars, worker_vars, crawler_vars, shutdown_vars, store_vars,
                       scope_vars >>

non_crawler_vars == << pool_vars, worker_vars, run_vars, shutdown_vars, store_vars,
                      scope_vars >>

non_store_vars == << pool_vars, worker_vars, frontier_vars, crawler_vars,
                    shutdown_vars, scope_vars >>

non_scope_vars == << pool_vars, worker_vars, frontier_vars, crawler_vars,
                    shutdown_vars, store_vars >>

\* What shutdown_worker leaves alone: everything but its own state and the flag.
non_shutdown_vars ==
  << pool_vars, frontier_vars, crawler_vars, store_vars, scope_vars, init_lock, globals,
     boot_step,
     bootstraps, boot_failures, started, init_worker_called, tpc, cur, op_step, tx,
     init_failed, task_kind, status, retries, attempts, only_transient,
     veto_raised, rolled_back, worker_up, store >>

config == << max_amount_of_concurrent_pages, initial_page_size, minimum_page_size,
             max_operations_per_context >>

\* ------------------------------------------------------------ construction
\* PagePool.__init__: the ValueError check, made before any clamping.
ConstructionRaises(max_in, initial_in) == initial_in > max_in

ClampInitial(initial_in) == IF initial_in <= 0 THEN 1 ELSE initial_in

ClampMax(max_in) == IF max_in <= 0 THEN 1 ELSE max_in

\* "minimum_page_size = minimum_page_size": the branch assigns the value to itself.
ClampMin(min_in, initial) == IF min_in <= 0 \/ min_in > initial THEN min_in ELSE min_in

\* create_page_pool: range(initial_page_size) pages of the first context, made
\* from the caller's value (before __init__ clamps it).
InitialPages(initial_in) == [i \in 1..(IF initial_in < 0 THEN 0 ELSE initial_in) |-> i]

\* The pool as create_page_pool returns it, for sizes of at least one page
\* (minimum_page_size may be 0: __init__ leaves it as given).
Init ==
  \E max_in \in 1..MaxPagesB, initial_in \in 1..MaxPagesB,
     min_in \in 0..MaxPagesB, budget \in 1..MaxBudget :
    /\ ~ConstructionRaises(max_in, initial_in)
    /\ max_amount_of_concurrent_pages = ClampMax(max_in)
    /\ initial_page_size = ClampInitial(initial_in)
    /\ minimum_page_size = ClampMin(min_in, ClampInitial(initial_in))
    /\ max_operations_per_context = budget
    /\ free_pages = InitialPages(initial_in)
    /\ current_page_count = ClampInitial(initial_in)
    /\ operation_amount_in_current_context = 0
    /\ browser_context = 1
    /\ page_ctx = [i \in 1..Len(InitialPages(initial_in)) |-> 1]
    /\ closed = {}
    /\ lock_owner = NoProc
    /\ lock_waiters = << >>
    /\ pc = [p \in Procs |-> "idle"]
    /\ page = [p \in Procs |-> NoPage]
    /\ release_calls = [p \in Procs |-> 0]
    /\ late = [p \in Procs |-> FALSE]
    /\ sd_pc = "idle"
    /\ calls = 0
    /\ gen_acquisitions = 0

\* ------------------------------------------------------------- asyncio.Lock
\* `async with self._lock` entered by p: taken at once when free, else p queues.
LockRequest(p) ==
  IF lock_owner = NoProc
    THEN /\ lock_owner' = p
         /\ lock_waiters' = lock_waiters
    ELSE /\ lock_owner' = lock_owner
         /\ lock_waiters' = Append(lock_waiters, p)

\* Leaving `async with self._lock`: the first waiter, if any, gets the lock.
LockRelease ==
  IF lock_waiters = << >>
    THEN /\ lock_owner' = NoProc
         /\ lock_waiters' = lock_waiters
    ELSE /\ lock_owner' = Head(lock_waiters)
         /\ lock_waiters' = Tail(lock_waiters)

\* p leaves one `async with self._lock` and enters the next without suspending
\* in between (acquire, after __create_new_context_if_needed returns).
LockReleaseThenRequest(p) ==
  IF lock_waiters = << >>
    THEN /\ lock_owner' = p
         /\ lock_waiters' = lock_waiters
    ELSE /\ lock_owner' = Head(lock_waiters)
         /\ lock_waiters' = Append(Tail(lock_waiters), p)

\* ------------------------------------------------------------------ helpers
Set(pid, f, v) == [f EXCEPT ![pid] = v]

\* The pages of context generation g that the browser has created.
PagesOf(g) == {i \in DOMAIN page_ctx : page_ctx[i] = g}

\* Mutant of QueueRest: get() hands out the first page and leaves it queued.
QueueRest_Peek(q) == q

\* asyncio.Queue.get() on a non-empty queue: what stays in the queue.
QueueRest(q) == Tail(q)

\* ------------------------------------------------------- get_page / acquire
\* Mutant of CanCreatePage: the page count is not compared with the maximum.
CanCreatePage_NoCap == Len(free_pages) = 0

\* acquire: the test that lets it create a page.
CanCreatePage ==
  /\ Len(free_pages) = 0
  /\ current_page_count < max_amount_of_concurrent_pages

\* acquire, entering its own `async with self._lock` as the lock's owner: it
\* starts creating a page (suspending in new_page), or takes a page off the free
\* queue and returns it, or suspends in free_pages.get() on the empty queue.
\* The lock is held across both suspensions.
AcquireWithLock(p) ==
  IF CanCreatePage
    THEN /\ pc' = Set(p, pc, "acq_new_page")
         /\ lock_owner' = p
         /\ UNCHANGED << free_pages, page, lock_waiters >>
    ELSE IF free_pages # << >>
      THEN /\ page' = Set(p, page, Head(free_pages))
           /\ free_pages' = QueueRest(free_pages)
           /\ pc' = Set(p, pc, "body")
           /\ LockRelease
      ELSE /\ pc' = Set(p, pc, "acq_get")
           /\ lock_owner' = p
           /\ UNCHANGED << free_pages, page, lock_waiters >>

\* __create_new_context_if_needed: the budget test.
BudgetLeft == operation_amount_in_current_context < max_operations_per_context

\* __create_new_context_if_needed as the lock's owner.  With budget left it
\* counts the acquisition and leaves the lock; acquire then asks for the lock
\* again and, if nobody waits for it, goes on at once.  With the budget used up
\* it starts a rotation with close_all_pages, whose loop takes a page off the
\* free queue and closes it (suspending in page.close()) until the queue is
\* empty; the counter is reset when the loop is over.
ContextCheckWithLock(p) ==
  IF BudgetLeft
    THEN /\ operation_amount_in_current_context' =
              operation_amount_in_current_context + 1
         /\ gen_acquisitions' = gen_acquisitions + 1
         /\ UNCHANGED closed
         /\ IF lock_waiters = << >>
              THEN AcquireWithLock(p)
              ELSE /\ pc' = Set(p, pc, "acq_wait")
                   /\ LockReleaseThenRequest(p)
                   /\ UNCHANGED << free_pages, page >>
    ELSE /\ lock_owner' = p
         /\ UNCHANGED << gen_acquisitions, lock_waiters, page >>
         /\ IF free_pages # << >>
              THEN /\ free_pages' = QueueRest(free_pages)
                   /\ closed' = closed \cup {Head(free_pages)}
                   /\ pc' = Set(p, pc, "rot_closing")
                   /\ UNCHANGED operation_amount_in_current_context
              ELSE /\ operation_amount_in_current_context' = 0
                   /\ pc' = Set(p, pc, "rot_ctx_close")
                   /\ UNCHANGED << free_pages, closed >>

\* get_page: `page = None`, then acquire(), which first awaits
\* __create_new_context_if_needed: with the lock free the coroutine runs on to
\* its first suspension, else it waits for the lock.  Idle coroutines are
\* interchangeable: the new call runs on the first idle one.
GetPageCall(p) ==
  /\ pc[p] = "idle"
  /\ \A q \in 1..(p - 1) : pc[q] # "idle"
  /\ calls < MaxCalls
  /\ calls' = calls + 1
  /\ late' = Set(p, late, sd_pc = "done")
  /\ IF lock_owner = NoProc
       THEN ContextCheckWithLock(p)
       ELSE /\ pc' = Set(p, pc, "ctx_wait")
            /\ LockRequest(p)
            /\ UNCHANGED << free_pages, operation_amount_in_current_context, closed,
                            page, gen_acquisitions >>
  /\ UNCHANGED << config, current_page_count, browser_context, page_ctx, release_calls, sd_pc >>

\* __create_new_context_if_needed, resumed with the lock it waited for.
ContextCheck(p) ==
  /\ pc[p] = "ctx_wait"
  /\ lock_owner = p
  /\ ContextCheckWithLock(p)
  /\ UNCHANGED << config, current_page_count, browser_context, page_ctx, release_calls, late, sd_pc, calls >>

\* Rotation, resumed after a page.close() of close_all_pages: the loop goes on.
RotateClosePages(p) ==
  /\ pc[p] = "rot_closing"
  /\ IF free_pages # << >>
       THEN /\ free_pages' = QueueRest(free_pages)
            /\ closed' = closed \cup {Head(free_pages)}
            /\ UNCHANGED << pc, operation_amount_in_current_context >>
       ELSE /\ operation_amount_in_current_context' = 0
            /\ pc' = Set(p, pc, "rot_ctx_close")
            /\ UNCHANGED << free_pages, closed >>
  /\ UNCHANGED << config, current_page_count, browser_context, page_ctx,
                  lock_owner, lock_waiters, page, release_calls, late,
                  sd_pc, calls, gen_acquisitions >>

\* Rotation, resumed after browser_context.close(): the browser has closed
\* every page of the retired context, the ones callers hold included.
RotateCloseContext(p) ==
  /\ pc[p] = "rot_ctx_close"
  /\ closed' = closed \cup PagesOf(browser_context)
  /\ pc' = Set(p, pc, "rot_new_ctx")
  /\ UNCHANGED << config, free_pages, current_page_count,
                  operation_amount_in_current_context, browser_context, page_ctx,
                  lock_owner, lock_waiters, page, release_calls, late,
                  sd_pc, calls, gen_acquisitions >>

\* Mutant of RotationCount: the rotation leaves the count as it was.
RotationCount_Kept(n) == current_page_count

\* `self.current_page_count = len(pages)` for the n pages of the new context.
RotationCount(n) == n

\* Rotation, resumed after new_context() and the new_page() calls: the new
\* context's initial pages are counted and queued; the lock is left and
\* acquire asks for it again.
RotateNewContext(p) ==
  /\ pc[p] = "rot_new_ctx"
  /\ browser_context' = browser_context + 1
  /\ page_ctx' = page_ctx \o [i \in 1..initial_page_size |-> browser_context + 1]
  /\ current_page_count' = RotationCount(initial_page_size)
  /\ free_pages' = free_pages \o [i \in 1..initial_page_size |-> Len(page_ctx) + i]
  /\ gen_acquisitions' = 1
  /\ pc' = Set(p, pc, "acq_wait")
  /\ LockReleaseThenRequest(p)
  /\ UNCHANGED << config, operation_amount_in_current_context, closed, page,
                  release_calls, late, sd_pc, calls >>

\* acquire, resumed with the lock it waited for (pc = "acq_wait"), or resumed
\* in free_pages.get() by a page arriving on the queue (pc = "acq_get").
AcquireBody(p) ==
  /\ pc[p] \in {"acq_wait", "acq_get"}
  /\ lock_owner = p
  /\ pc[p] = "acq_get" => free_pages # << >>
  /\ IF pc[p] = "acq_wait"
       THEN AcquireWithLock(p)
       ELSE /\ page' = Set(p, page, Head(free_pages))
            /\ free_pages' = QueueRest(free_pages)
            /\ pc' = Set(p, pc, "body")
            /\ LockRelease
  /\ UNCHANGED << config, current_page_count, operation_amount_in_current_context,
                  browser_context, page_ctx, closed, release_calls, late,
                  sd_pc, calls, gen_acquisitions >>

\* acquire, resumed after browser_context.new_page(): the page is counted and
\* returned, or the call raised and acquire fails (the lock is left either way).
NewPageDone(p) ==
  /\ pc[p] = "acq_new_page"
  /\ \E ok \in BOOLEAN :
       IF ok
         THEN /\ page_ctx' = Append(page_ctx, browser_context)
              /\ current_page_count' = current_page_count + 1
              /\ page' = Set(p, page, Len(page_ctx) + 1)
              /\ pc' = Set(p, pc, "body")
         ELSE /\ pc' = Set(p, pc, "acq_failed")
              /\ UNCHANGED << page_ctx, current_page_count, page >>
  /\ LockRelease
  /\ UNCHANGED << config, free_pages, operation_amount_in_current_context,
                  browser_context, closed, release_calls, late, sd_pc,
                  calls, gen_acquisitions >>

\* ------------------------------------------------------------------ release
\* Mutant of ReleaseCloses: close as soon as the queue has reached the minimum.
ReleaseCloses_AtMinimum == Len(free_pages) >= minimum_page_size

\* release: the test that closes the page instead of requeueing it.
ReleaseCloses == Len(free_pages) > minimum_page_size

\* release as the lock's owner: close the page (suspending in page.close()) or
\* reset it (suspending in page.goto).
ReleaseWithLock(p) ==
  /\ lock_owner' = p
  /\ UNCHANGED lock_waiters
  /\ IF ReleaseCloses
       THEN /\ closed' = closed \cup {page[p]}
            /\ pc' = Set(p, pc, "rel_close")
       ELSE /\ pc' = Set(p, pc, "rel_goto")
            /\ UNCHANGED closed

\* release(page) is called: with the lock free it runs on to its first
\* suspension, else it waits for the lock.
ReleaseCall(p) ==
  IF lock_owner = NoProc
    THEN ReleaseWithLock(p)
    ELSE /\ pc' = Set(p, pc, "rel_wait")
         /\ LockRequest(p)
         /\ UNCHANGED closed

\* release, resumed with the lock it waited for.
ReleaseEntry(p) ==
  /\ pc[p] = "rel_wait"
  /\ lock_owner = p
  /\ ReleaseWithLock(p)
  /\ UNCHANGED << config, free_pages, current_page_count,
                  operation_amount_in_current_context, browser_context, page_ctx,
                  page, release_calls, late, sd_pc, calls, gen_acquisitions >>

\* release, resumed after page.close(): the page is no longer counted.
ReleaseClosed(p) ==
  /\ pc[p] = "rel_close"
  /\ current_page_count' = current_page_count - 1
  /\ pc' = Set(p, pc, "done")
  /\ LockRelease
  /\ UNCHANGED << config, free_pages, operation_amount_in_current_context,
                  browser_context, page_ctx, closed, page, release_calls,
                  late, sd_pc, calls, gen_acquisitions >>

\* Mutant of GotoRaises: release requeues without the reset navigation.
GotoRaises_NoReset(pg) == FALSE

\* page.goto("about:blank") raises on a page the browser has closed.
GotoRaises(pg) == pg \in closed

\* asyncio.Queue(maxsize=max_amount_of_concurrent_pages).full()
QueueFull == Len(free_pages) >= max_amount_of_concurrent_pages

\* release, resumed after page.goto (or suspended in free_pages.put on a full
\* queue): the navigation raised and release raises, leaving the page neither
\* queued nor closed; or the page is put on the free queue.
ReleaseRequeue(p) ==
  /\ pc[p] \in {"rel_goto", "rel_put"}
  /\ \E ok \in BOOLEAN :
       /\ pc[p] = "rel_put" => ok
       /\ (pc[p] = "rel_goto" /\ GotoRaises(page[p])) => ~ok
       /\ IF ~ok
            THEN /\ pc' = Set(p, pc, "done")
                 /\ LockRelease
                 /\ UNCHANGED free_pages
            ELSE IF QueueFull
              THEN /\ pc[p] = "rel_goto"
                   /\ pc' = Set(p, pc, "rel_put")
                   /\ UNCHANGED << free_pages, lock_owner, lock_waiters >>
              ELSE /\ free_pages' = Append(free_pages, page[p])
                   /\ pc' = Set(p, pc, "done")
                   /\ LockRelease
  /\ UNCHANGED << config, current_page_count, operation_amount_in_current_context,
                  browser_context, page_ctx, closed, page, release_calls,
                  late, sd_pc, calls, gen_acquisitions >>

\* ------------------------------------------------------ get_page: the scope
ExitKinds == {"normal", "error", "cancelled"}

\* Mutant of ScopeReleases: the release sits after the yield, not in a finally.
ScopeReleases_NormalOnly(p, kind) == page[p] # NoPage /\ kind = "normal"

\* get_page's finally clause: `if page is not None`.
ScopeReleases(p, kind) == page[p] # NoPage

\* The scope is left: the body returns, raises or is cancelled (pc = "body"),
\* or acquire raised (pc = "acq_failed").  The finally clause calls release
\* for an acquired page.
ScopeExit(p) ==
  /\ pc[p] \in {"body", "acq_failed"}
  /\ \E kind \in ExitKinds \cup {"acquire_failed"} :
       /\ (kind = "acquire_failed") <=> (pc[p] = "acq_failed")
       /\ IF ScopeReleases(p, kind)
            THEN /\ release_calls' = Set(p, release_calls, release_calls[p] + 1)
                 /\ ReleaseCall(p)
            ELSE /\ pc' = Set(p, pc, "done")
                 /\ UNCHANGED << release_calls, lock_owner, lock_waiters, closed >>
  /\ UNCHANGED << config, free_pages, current_page_count,
                  operation_amount_in_current_context, browser_context, page_ctx,
                  page, late, sd_pc, calls, gen_acquisitions >>

\* get_page has returned or raised to its caller: the coroutine is free again.
ScopeReturn(p) ==
  /\ pc[p] = "done"
  /\ pc' = Set(p, pc, "idle")
  /\ page' = Set(p, page, NoPage)
  /\ release_calls' = Set(p, release_calls, 0)
  /\ late' = Set(p, late, FALSE)
  /\ UNCHANGED << config, free_pages, current_page_count,
                  operation_amount_in_current_context, browser_context, page_ctx,
                  closed, lock_owner, lock_waiters, sd_pc, calls, gen_acquisitions >>

\* A caller releases again the handle its scope has already released.
ReleaseAgain(p) ==
  /\ pc[p] = "done"
  /\ page[p] # NoPage
  /\ release_calls[p] = 1
  /\ release_calls' = Set(p, release_calls, 2)
  /\ ReleaseCall(p)
  /\ UNCHANGED << config, free_pages, current_page_count,
                  operation_amount_in_current_context, browser_context, page_ctx,
                  page, late, sd_pc, calls, gen_acquisitions >>

\* ------------------------------------------- close_all_pages at worker shutdown
\* shutdown_worker's cleanup awaits page_pool.close_all_pages(), which never
\* takes the lock: each turn of its loop takes a free page and closes it.
Shutdown ==
  /\ sd_pc \in {"idle", "closing"}
  /\ IF free_pages # << >>
       THEN /\ free_pages' = QueueRest(free_pages)
            /\ closed' = closed \cup {Head(free_pages)}
            /\ sd_pc' = "closing"
       ELSE /\ sd_pc' = "done"
            /\ UNCHANGED << free_pages, closed >>
  /\ UNCHANGED << config, current_page_count, operation_amount_in_current_context,
                  browser_context, page_ctx, lock_owner, lock_waiters, pc, page,
                  release_calls, late, calls, gen_acquisitions >>

\* ------------------------------------------------------ worker: definitions
NThreads == 2          \* worker threads of the process
NTasks == 1            \* task messages delivered to the process
MaxBootFailures == 1   \* bootstrap sequences that may raise in one run
MaxRetries == 3        \* max_retries of every task

Threads == 1..NThreads
Tasks == 1..NTasks
NoThread == 0
NoTask == 0

\* The globals of the module, in the order the bootstrap assigns them.
BootSequence == << "event_loop", "playwright_instance", "browser", "page_pool", "db_pool" >>

Resources == {BootSequence[i] : i \in DOMAIN BootSequence}

Kinds == {"match_result", "vetos", "maps", "player_stats", "full_match", "event"}

\* The entry points that go through _run_async_task.
BridgeKinds == {"match_result", "vetos", "maps", "player_stats"}

\* What a task's coroutine writes on its connection, in order.
Steps(k) ==
  CASE k = "match_result" -> << "match_result" >>
    [] k = "vetos"        -> << "vetos" >>
    [] k = "maps"         -> << "map_stats" >>
    [] k = "player_stats" -> << "player_stats" >>
    [] k = "event"        -> << "event" >>
    [] k = "full_match"   -> << "match_result", "map_stats", "vetos", "player_stats" >>

\* What an operation can raise: a transient error or VetoBoxNotFoundError.
Errors == {"transient", "veto"}

\* The worker before the process has used it.
WorkerUnused ==
  /\ is_initialized = FALSE
  /\ init_lock = NoThread
  /\ globals = [r \in Resources |-> FALSE]
  /\ boot_step = 0
  /\ bootstraps = 0
  /\ boot_failures = 0
  /\ started = [r \in Resources |-> 0]
  /\ init_worker_called = FALSE
  /\ tpc = [t \in Threads |-> "idle"]
  /\ cur = [t \in Threads |-> NoTask]
  /\ op_step = [t \in Threads |-> 0]
  /\ tx = [t \in Threads |-> {}]
  /\ init_failed = [t \in Threads |-> FALSE]
  /\ task_kind = [i \in Tasks |-> "match_result"]
  /\ status = [i \in Tasks |-> "queued"]
  /\ retries = [i \in Tasks |-> 0]
  /\ attempts = [i \in Tasks |-> 0]
  /\ only_transient = [i \in Tasks |-> TRUE]
  /\ veto_raised = [i \in Tasks |-> FALSE]
  /\ rolled_back = [i \in Tasks |-> FALSE]
  /\ worker_up = TRUE
  /\ store = {}

\* A worker process at start, with task messages of any kinds in its queue.
WorkerInit ==
  /\ is_initialized = FALSE
  /\ init_lock = NoThread
  /\ globals = [r \in Resources |-> FALSE]
  /\ boot_step = 0
  /\ bootstraps = 0
  /\ boot_failures = 0
  /\ started = [r \in Resources |-> 0]
  /\ init_worker_called = FALSE
  /\ tpc = [t \in Threads |-> "idle"]
  /\ cur = [t \in Threads |-> NoTask]
  /\ op_step = [t \in Threads |-> 0]
  /\ tx = [t \in Threads |-> {}]
  /\ init_failed = [t \in Threads |-> FALSE]
  /\ task_kind \in [Tasks -> Kinds]
  /\ status = [i \in Tasks |-> "queued"]
  /\ retries = [i \in Tasks |-> 0]
  /\ attempts = [i \in Tasks |-> 0]
  /\ only_transient = [i \in Tasks |-> TRUE]
  /\ veto_raised = [i \in Tasks |-> FALSE]
  /\ rolled_back = [i \in Tasks |-> FALSE]
  /\ worker_up = TRUE
  /\ store = {}

\* The page pool before create_page_pool has built it.
PoolUnused ==
  /\ max_amount_of_concurrent_pages = 1
  /\ initial_page_size = 1
  /\ minimum_page_size = 1
  /\ max_operations_per_context = 1
  /\ free_pages = << >>
  /\ current_page_count = 0
  /\ operation_amount_in_current_context = 0
  /\ browser_context = 0
  /\ page_ctx = << >>
  /\ closed = {}
  /\ lock_owner = NoProc
  /\ lock_waiters = << >>
  /\ pc = [p \in Procs |-> "idle"]
  /\ page = [p \in Procs |-> NoPage]
  /\ release_calls = [p \in Procs |-> 0]
  /\ late = [p \in Procs |-> FALSE]
  /\ sd_pc = "idle"
  /\ calls = 0
  /\ gen_acquisitions = 0

\* ------------------------------------------------------- ensure_initialized
\* The fast check without the lock.
EnsureEnter(t) ==
  tpc' = Set(t, tpc, IF is_initialized THEN "init_ok" ELSE "lock_wait")

\* The check repeated inside the lock.
DoubleCheck_Missing == FALSE

DoubleCheck == is_initialized

\* `with _init_lock:` up to the start of the bootstrap.
EnsureLock(t) ==
  /\ tpc[t] = "lock_wait"
  /\ init_lock = NoThread
  /\ IF DoubleCheck
       THEN /\ tpc' = Set(t, tpc, "init_ok")
            /\ UNCHANGED << init_lock, boot_step, bootstraps >>
       ELSE /\ init_lock' = t
            /\ tpc' = Set(t, tpc, "boot")
            /\ boot_step' = 1
            /\ bootstraps' = bootstraps + 1
  /\ UNCHANGED << is_initialized, globals, boot_failures, started, init_worker_called, cur,
                  op_step, tx, init_failed, task_kind, status, retries, attempts,
                  only_transient, veto_raised, rolled_back, worker_up, store >>

\* Whether the flag is set when the bootstrap ends.
MarksReady_Always(ok) == TRUE

MarksReady(ok) == ok

\* Mutant of StartsLoop: every bootstrap starts a loop thread.
StartsLoop_Always == TRUE

\* `if event_loop is None:` in front of the creation of the loop thread.
StartsLoop == ~globals["event_loop"]

\* Whether the bootstrap step of resource r creates one: setup() creates its
\* four resources each time it runs.
Creates(r) == IF r = "event_loop" THEN StartsLoop ELSE TRUE

\* One step of the bootstrap: the loop thread is started if there is none;
\* setup() then starts Playwright, opens the browser, builds the page pool
\* and opens the database pool. Any step of setup() may raise.
BootStep(t) ==
  /\ tpc[t] = "boot"
  /\ LET r == BootSequence[boot_step]
         last == boot_step = Len(BootSequence)
     IN \E ok \in BOOLEAN :
          /\ ~ok => /\ r # "event_loop"
                    /\ boot_failures < MaxBootFailures
          /\ globals' = IF ok THEN [globals EXCEPT ![r] = TRUE] ELSE globals
          /\ started' = IF ok /\ Creates(r)
                          THEN [started EXCEPT ![r] = @ + 1]
                          ELSE started
          /\ IF ok /\ ~last
               THEN /\ boot_step' = boot_step + 1
                    /\ UNCHANGED << is_initialized, init_lock, boot_failures, tpc,
                                    init_failed >>
               ELSE /\ boot_step' = 0
                    /\ init_lock' = NoThread
                    /\ is_initialized' = MarksReady(ok)
                    /\ boot_failures' = IF ok THEN boot_failures ELSE boot_failures + 1
                    /\ tpc' = Set(t, tpc, IF ok THEN "init_ok" ELSE "init_raised")
                    /\ init_failed' = Set(t, init_failed, ~ok)
  /\ UNCHANGED << bootstraps, init_worker_called, cur, op_step, tx, task_kind, status,
                  retries, attempts, only_transient, veto_raised, rolled_back,
                  worker_up, store >>

\* init_worker, on the worker_process_init signal, which a process gets at
\* its start if it gets it at all.
InitWorker(t) ==
  /\ t = 1
  /\ \A u \in Threads : tpc[u] = "idle"
  /\ \A i \in Tasks : attempts[i] = 0
  /\ ~init_worker_called
  /\ init_worker_called' = TRUE
  /\ EnsureEnter(t)
  /\ UNCHANGED << is_initialized, init_lock, globals, boot_step, bootstraps,
                  boot_failures, started, cur, op_step, tx, init_failed, task_kind, status,
                  retries, attempts, only_transient, veto_raised, rolled_back,
                  worker_up, store >>

\* ------------------------------------------------------------------- tasks
\* A thread takes a task message and enters the task's entry point. Idle
\* threads are alike: the lowest one takes the message.
TaskStart(t, i) ==
  /\ worker_up
  /\ tpc[t] = "idle"
  /\ \A u \in Threads : u < t => tpc[u] # "idle"
  /\ status[i] = "queued"
  /\ status' = Set(i, status, "running")
  /\ attempts' = Set(i, attempts, attempts[i] + 1)
  /\ cur' = Set(t, cur, i)
  /\ op_step' = Set(t, op_step, 0)
  /\ tx' = Set(t, tx, {})
  /\ init_failed' = Set(t, init_failed, FALSE)
  /\ EnsureEnter(t)
  /\ UNCHANGED << is_initialized, init_lock, globals, boot_step, bootstraps,
                  boot_failures, started, init_worker_called, task_kind, retries, only_transient,
                  veto_raised, rolled_back, worker_up, store >>

\* self.retry(exc=e): re-enqueue while retries are left, else fail with e.
Retry(t) ==
  LET i == cur[t]
  IN /\ IF retries[i] < MaxRetries
          THEN /\ retries' = Set(i, retries, retries[i] + 1)
               /\ status' = Set(i, status, "queued")
          ELSE /\ status' = Set(i, status, "failure")
               /\ UNCHANGED retries
     /\ tpc' = Set(t, tpc, "idle")
     /\ cur' = Set(t, cur, NoTask)

\* The exception leaves the entry point: the task fails without a retry.
Fail(t) ==
  /\ status' = Set(cur[t], status, "failure")
  /\ tpc' = Set(t, tpc, "idle")
  /\ cur' = Set(t, cur, NoTask)
  /\ UNCHANGED retries

\* Whether an entry point answers a failed ensure_initialized with self.retry.
InitFailureRetries_LogOnly(k) == FALSE

InitFailureRetries(k) == TRUE

\* Whether init_worker catches what ensure_initialized raises.
InitWorkerSwallows_Reraises == FALSE

InitWorkerSwallows == TRUE

\* ensure_initialized raised: init_worker swallows the exception, a task
\* calls self.retry.
InitRaised(t) ==
  /\ tpc[t] = "init_raised"
  /\ IF cur[t] = NoTask
       THEN /\ tpc' = Set(t, tpc, "idle")
            /\ worker_up' = InitWorkerSwallows
            /\ UNCHANGED << cur, status, retries, only_transient >>
       ELSE /\ only_transient' = Set(cur[t], only_transient, FALSE)
            /\ IF InitFailureRetries(task_kind[cur[t]])
                 THEN Retry(t)
                 ELSE /\ tpc' = Set(t, tpc, "init_ok")
                      /\ UNCHANGED << cur, status, retries >>
            /\ UNCHANGED worker_up
  /\ UNCHANGED << is_initialized, init_lock, globals, boot_step, bootstraps,
                  boot_failures, started, init_worker_called, op_step, tx, init_failed, task_kind,
                  attempts, veto_raised, rolled_back, store >>

\* `page_pool is None or event_loop is None or db_pool is None`
ResourcesMissing ==
  ~globals["page_pool"] \/ ~globals["event_loop"] \/ ~globals["db_pool"]

\* ensure_initialized returned: init_worker is done; a task checks the
\* globals and submits its coroutine to the loop. The RuntimeError of the
\* check is raised outside the try block in _run_async_task and inside it in
\* full_match and event.
Submit(t) ==
  /\ tpc[t] = "init_ok"
  /\ IF cur[t] = NoTask
       THEN /\ tpc' = Set(t, tpc, "idle")
            /\ UNCHANGED << cur, status, retries, op_step >>
       ELSE IF ResourcesMissing
         THEN /\ IF task_kind[cur[t]] \in BridgeKinds THEN Fail(t) ELSE Retry(t)
              /\ UNCHANGED op_step
         ELSE /\ tpc' = Set(t, tpc, "op")
              /\ op_step' = Set(t, op_step, 1)
              /\ UNCHANGED << cur, status, retries >>
  /\ UNCHANGED << is_initialized, init_lock, globals, boot_step, bootstraps,
                  boot_failures, started, init_worker_called, tx, init_failed, task_kind, attempts,
                  only_transient, veto_raised, rolled_back, worker_up, store >>

\* The except clauses of the entry points: whether error e of the operation
\* ends in self.retry (otherwise the entry point returns None).
RetriesOn_Swallow(k, e) == FALSE

RetriesOn_NoVetoClause(k, e) == TRUE

RetriesOn(k, e) ==
  IF k = "full_match" THEN e # "veto" ELSE TRUE

\* The rows of a transaction that are in the store after conn.rollback().
AfterRollback_Autocommit(rows) == rows

AfterRollback(rows) == {}

\* The rows as the store holds them.
Tagged(i, rows) == {<< i, attempts[i], r >> : r \in rows}

\* One step of the task's coroutine on the loop: an extraction followed by
\* its insert, or, after the last of them, the commit.
OpStep(t) ==
  /\ tpc[t] = "op"
  /\ LET i == cur[t]
         k == task_kind[i]
         commit == op_step[t] = Len(Steps(k)) + 1
     IN \E out \in {"ok"} \cup Errors :
          IF out = "ok"
            THEN IF commit
                   THEN /\ store' = store \cup Tagged(i, tx[t])
                        /\ tx' = Set(t, tx, {})
                        /\ status' = Set(i, status, "success")
                        /\ only_transient' = Set(i, only_transient, FALSE)
                        /\ tpc' = Set(t, tpc, "idle")
                        /\ cur' = Set(t, cur, NoTask)
                        /\ UNCHANGED << op_step, retries, veto_raised, rolled_back >>
                   ELSE /\ tx' = Set(t, tx, tx[t] \cup {Steps(k)[op_step[t]]})
                        /\ op_step' = Set(t, op_step, op_step[t] + 1)
                        /\ UNCHANGED << store, status, only_transient, tpc, cur, retries,
                                        veto_raised, rolled_back >>
            ELSE /\ store' = store \cup Tagged(i, AfterRollback(tx[t]))
                 /\ tx' = Set(t, tx, {})
                 /\ only_transient' = Set(i, only_transient,
                                          only_transient[i] /\ out = "transient")
                 /\ veto_raised' = Set(i, veto_raised, veto_raised[i] \/ out = "veto")
                 /\ rolled_back' = Set(i, rolled_back, rolled_back[i] \/ tx[t] # {})
                 /\ IF RetriesOn(k, out)
                      THEN Retry(t)
                      ELSE /\ status' = Set(i, status, "noop")
                           /\ tpc' = Set(t, tpc, "idle")
                           /\ cur' = Set(t, cur, NoTask)
                           /\ UNCHANGED retries
                 /\ UNCHANGED op_step
  /\ UNCHANGED << is_initialized, init_lock, globals, boot_step, bootstraps,
                  boot_failures, started, init_worker_called, init_failed, task_kind, attempts,
                  worker_up >>

StepWorker(t) ==
  \/ InitWorker(t) /\ UNCHANGED non_worker_vars
  \/ \E i \in Tasks : TaskStart(t, i) /\ UNCHANGED non_worker_vars
  \/ EnsureLock(t) /\ UNCHANGED non_worker_vars
  \/ BootStep(t) /\ UNCHANGED non_worker_vars
  \/ InitRaised(t) /\ UNCHANGED non_worker_vars
  \/ Submit(t) /\ UNCHANGED non_worker_vars
  \/ OpStep(t) /\ UNCHANGED non_worker_vars

NextWorker == \E t \in Threads : StepWorker(t)

\* --------------------------------------------------------- shutdown_worker
\* The resources cleanup() closes, in its order.
CleanupSequence == << "page_pool", "browser", "playwright_instance", "db_pool" >>

\* What closing a resource on the loop can do: return, raise, or never finish.
CloseOutcomes == {"ok", "raises", "hangs"}

\* shutdown_worker has not been called.
ShutdownUnused ==
  /\ ws_pc = "idle"
  /\ cleanup_pc = 0
  /\ cleanup_out = "none"
  /\ ws_closed = {}
  /\ ws_failed = {}
  /\ loop_stopped = FALSE
  /\ thread_joined = FALSE
  /\ ws_logged = FALSE
  /\ ws_raised = FALSE

\* `event_loop is not None and event_loop.is_running()`: the loop runs from
\* the first bootstrap until it is stopped.
LoopRunning == globals["event_loop"] /\ ~loop_stopped

\* Whether the except clause of shutdown_worker catches what the wait raises.
ShutdownSwallows == TRUE

\* Whether the wait for cleanup() gives up after a grace period.
WaitHasTimeout == FALSE

\* shutdown_worker on the worker_process_shutdown signal, which the process
\* gets when its threads have no task: without a running loop it only clears
\* the flag, else it submits cleanup() to the loop and waits for it.
ShutdownWorker ==
  /\ ws_pc = "idle"
  /\ \A t \in Threads : tpc[t] = "idle"
  /\ IF LoopRunning
       THEN /\ ws_pc' = "wait"
            /\ cleanup_pc' = 1
            /\ cleanup_out' = "running"
            /\ UNCHANGED is_initialized
       ELSE /\ ws_pc' = "returned"
            /\ is_initialized' = FALSE
            /\ UNCHANGED << cleanup_pc, cleanup_out >>
  /\ UNCHANGED << ws_closed, ws_failed, loop_stopped, thread_joined, ws_logged,
                  ws_raised >>

\* One step of cleanup() on the loop: a global that is None is passed over,
\* any other is closed. An exception ends the coroutine.
Cleanup ==
  /\ cleanup_out = "running"
  /\ LET r == CleanupSequence[cleanup_pc]
         last == cleanup_pc = Len(CleanupSequence)
     IN \E out \in CloseOutcomes :
          /\ ~globals[r] => out = "ok"
          /\ ws_closed' = IF globals[r] /\ out = "ok" THEN ws_closed \cup {r} ELSE ws_closed
          /\ ws_failed' = IF out = "raises" THEN ws_failed \cup {r} ELSE ws_failed
          /\ cleanup_out' = CASE out = "raises" -> "raised"
                              [] out = "hangs" -> "hung"
                              [] OTHER -> IF last THEN "done" ELSE "running"
          /\ cleanup_pc' = IF out = "ok" THEN cleanup_pc + 1 ELSE cleanup_pc
  /\ UNCHANGED << ws_pc, loop_stopped, thread_joined, ws_logged, ws_raised,
                  is_initialized >>

\* future.result() returns or raises what cleanup() raised; the except
\* clause logs it and the finally clause clears the flag.
FutureResult ==
  /\ ws_pc = "wait"
  /\ \/ /\ cleanup_out = "done"
        /\ ws_pc' = "stop"
        /\ UNCHANGED << ws_logged, ws_raised, is_initialized >>
     \/ /\ cleanup_out = "raised" \/ (WaitHasTimeout /\ cleanup_out = "hung")
        /\ ws_pc' = "returned"
        /\ ws_logged' = ShutdownSwallows
        /\ ws_raised' = ~ShutdownSwallows
        /\ is_initialized' = FALSE
  /\ UNCHANGED << cleanup_pc, cleanup_out, ws_closed, ws_failed, loop_stopped,
                  thread_joined >>

\* event_loop.call_soon_threadsafe(event_loop.stop), loop_thread.join(timeout=5)
\* and the finally clause.
StopLoop ==
  /\ ws_pc = "stop"
  /\ loop_stopped' = TRUE
  /\ thread_joined' = TRUE
  /\ is_initialized' = FALSE
  /\ ws_pc' = "returned"
  /\ UNCHANGED << cleanup_pc, cleanup_out, ws_closed, ws_failed, ws_logged, ws_raised >>

\* The handler and the coroutine it waits for.
ShutdownSteps ==
  \/ ShutdownWorker /\ UNCHANGED non_shutdown_vars
  \/ Cleanup /\ UNCHANGED non_shutdown_vars
  \/ FutureResult /\ UNCHANGED non_shutdown_vars
  \/ StopLoop /\ UNCHANGED non_shutdown_vars

\* The worker's threads until the shutdown signal comes.
WorkerRuns == ws_pc = "idle" /\ NextWorker

NextWorkerShutdown == WorkerRuns \/ ShutdownSteps

\* ------------------------------------------------------- the database rows
MaxDeliveries == 3     \* task messages delivered, redeliveries included
NVersions == 2         \* contents a page can show at different times

\* Match URLs and event URLs. The matches are of the same event, between
\* the same two teams, with the same player; each has one map.
MatchItems == {"m1", "m2"}

EventItems == {"e1"}

Versions == 1..NVersions

Absent == << >>

\* The rows of the schema that the items can write, as << table, key >>.
Cells ==
  ({"events"} \X EventItems) \cup ({"teams"} \X {"t1", "t2"}) \cup ({"players"} \X {"p1"})
    \cup ({"matches", "vetos", "map_stats", "player_map_stats"} \X MatchItems)

\* The rows each insert function writes for an item, in its order.
InsertRows(label, item) ==
  CASE label = "match_result" ->
         << << "events", "e1" >>, << "teams", "t1" >>, << "teams", "t2" >>,
            << "matches", item >> >>
    [] label = "map_stats"     -> << << "map_stats", item >> >>
    [] label = "vetos"         -> << << "vetos", item >> >>
    [] label = "player_stats"  -> << << "players", "p1" >>, << "player_map_stats", item >> >>
    [] label = "event"         -> << << "events", item >> >>

\* The ON CONFLICT clause of the statement writing a row: insert_event
\* updates the row, every other insert leaves it.
OnConflict_Update(label) == "update"

OnConflict(label) == IF label = "event" THEN "update" ELSE "nothing"

\* INSERT ... ON CONFLICT of one row.
Upsert(d, cell, val, mode) ==
  IF d[cell] = Absent \/ mode = "update" THEN [d EXCEPT ![cell] = val] ELSE d

RECURSIVE UpsertAll(_, _, _, _)
UpsertAll(d, cells, val, mode) ==
  IF cells = << >> THEN d
  ELSE UpsertAll(Upsert(d, Head(cells), val, mode), Tail(cells), val, mode)

\* The REFERENCES constraints of the rows an insert writes.
ForeignKeysHold(d, label, item) ==
  CASE label \in {"map_stats", "vetos"} -> d[<< "matches", item >>] # Absent
    [] label = "player_stats"           -> d[<< "map_stats", item >>] # Absent
    [] OTHER                            -> TRUE

\* The database before any task has written to it.
StoreUnused ==
  /\ db = [c \in Cells |-> Absent]
  /\ s_pc = "idle"
  /\ s_item = "m1"
  /\ s_kind = "full_match"
  /\ s_ver = 1
  /\ s_step = 0
  /\ s_tx = [c \in Cells |-> Absent]
  /\ s_done = [i \in MatchItems \cup EventItems |-> [k \in Kinds |-> 0]]
  /\ s_count = 0
  /\ s_commits = 0
  /\ s_again = {}

\* A task message is delivered and its coroutine gets a connection.
StoreBegin ==
  /\ s_pc = "idle"
  /\ s_count < MaxDeliveries
  /\ s_count' = s_count + 1
  /\ \E i \in MatchItems \cup EventItems, k \in Kinds, v \in Versions :
       /\ k = "event" <=> i \in EventItems
       /\ s_item' = i
       /\ s_kind' = k
       /\ s_ver' = v
  /\ s_pc' = "run"
  /\ s_step' = 1
  /\ s_tx' = db
  /\ UNCHANGED << db, s_done, s_commits, s_again >>

\* One insert function of the task, or after the last of them the commit
\* (conn.commit in process_full_match, the exit of the connection scope in
\* the other tasks). An error rolls the transaction back.
StoreStep ==
  /\ s_pc = "run"
  /\ LET commit == s_step = Len(Steps(s_kind)) + 1
         label == Steps(s_kind)[s_step]
     IN \E ok \in BOOLEAN :
          /\ ok /\ ~commit => ForeignKeysHold(s_tx, label, s_item)
          /\ IF ~ok
               THEN /\ s_pc' = "idle"
                    /\ s_tx' = db
                    /\ UNCHANGED << db, s_step, s_done, s_commits, s_again >>
               ELSE IF commit
                 THEN /\ db' = s_tx
                      /\ s_done' = [s_done EXCEPT ![s_item][s_kind] = s_ver]
                      /\ s_commits' = s_commits + 1
                      /\ s_again' = IF s_done[s_item][s_kind] = s_ver
                                      THEN s_again \cup {<< s_item, s_kind >>}
                                      ELSE s_again
                      /\ s_pc' = "idle"
                      /\ UNCHANGED << s_tx, s_step >>
                 ELSE /\ s_tx' = UpsertAll(s_tx, InsertRows(label, s_item),
                                           << s_item, s_ver >>, OnConflict(label))
                      /\ s_step' = s_step + 1
                      /\ UNCHANGED << db, s_pc, s_done, s_commits, s_again >>
  /\ UNCHANGED << s_item, s_kind, s_ver, s_count >>

NextStore ==
  \/ StoreBegin /\ UNCHANGED non_store_vars
  \/ StoreStep /\ UNCHANGED non_store_vars

\* ---------------------------------------------------------------- frontiers
Range(q) == {q[i] : i \in DOMAIN q}

MaxRuns == 2           \* crawl runs made one after another
MaxLinks == 2          \* item links on one listing page
MaxListingPages == 2   \* listing pages of one run

\* The two crawlers: frontier.py over match URLs, top_events_frontier.py
\* over event URLs. Each has its own visited set in Redis.
Frontiers == {"matches", "events"}

\* VISITED_SET_KEY of HLTVFrontier and visited_key of the events crawler.
VisitedKey(f) ==
  IF f = "matches" THEN "hltv:visited_urls" ELSE "hltv:top_events_visited_urls"

VisitedKeys == {VisitedKey(f) : f \in Frontiers}

\* Item URLs a listing page can link to, and listing URLs (one per date range).
Items == {"item1", "item2"}

Listings == {"listing1", "listing2"}

\* The pages a listing can show: sequences of at most MaxLinks item links.
PageLinks == UNION {[1..n -> Items] : n \in 0..MaxLinks}

\* The pagination-next control of a listing page: a link to the next page,
\* marked inactive on the last page, or not on the page at all.
Controls == {"active", "inactive", "absent"}

NoControl == "none"

\* The controls the n-th page of a listing can have: the last page a run can
\* reach has no link to a further page.
ControlsOf(n) == IF n < MaxListingPages THEN Controls ELSE Controls \ {"active"}

\* `await pagination_next_locator.get_attribute("class")`: the class of the
\* element; for a locator that matches no element the call waits out the
\* page's default timeout and raises.
ControlRead(c) == IF c = "absent" THEN "raises" ELSE c

\* The frontier side before any crawl has run.
FrontierUnused ==
  /\ visited = [k \in VisitedKeys |-> {}]
  /\ ever_visited = [k \in VisitedKeys |-> {}]
  /\ enqueued = [k \in VisitedKeys |-> [u \in Items |-> 0]]
  /\ f_phase = "none"
  /\ f_kind = "matches"
  /\ f_force = FALSE
  /\ f_links = << >>
  /\ f_pages = 0
  /\ f_ctl = NoControl
  /\ f_parsed = 0
  /\ f_skipped = {}
  /\ f_start = {}
  /\ f_found = {}
  /\ f_count = 0
  /\ f_new = 0
  /\ f_runs = 0

\* redis sismember
is_visited(k, url) == url \in visited[k]

\* redis sadd
mark_visited(k, url) ==
  /\ visited' = [visited EXCEPT ![k] = @ \cup {url}]
  /\ ever_visited' = [ever_visited EXCEPT ![k] = @ \cup {url}]

\* run_frontier up to the first listing page: --clear-visited empties the
\* set; crawl builds the listing URL and parse() skips it if it is visited
\* and force is off, else marks it visited and opens the page.
RunFrontier ==
  /\ f_phase \in {"none", "done"}
  /\ f_runs < MaxRuns
  /\ f_runs' = f_runs + 1
  /\ f_kind' = "matches"
  /\ \E force \in BOOLEAN, clear \in BOOLEAN, url \in Listings, links \in PageLinks,
        c \in ControlsOf(1) :
       LET k == VisitedKey("matches")
           before == IF clear THEN {} ELSE visited[k]
       IN /\ f_force' = force
          /\ f_start' = before
          /\ IF ~force /\ url \in before
               THEN /\ visited' = [visited EXCEPT ![k] = before]
                    /\ f_phase' = "done"
                    /\ f_links' = << >>
                    /\ f_pages' = 0
                    /\ f_ctl' = NoControl
                    /\ UNCHANGED ever_visited
               ELSE /\ visited' = [visited EXCEPT ![k] = before \cup {url}]
                    /\ ever_visited' = [ever_visited EXCEPT ![k] = @ \cup {url}]
                    /\ f_phase' = "links"
                    /\ f_links' = links
                    /\ f_pages' = 1
                    /\ f_ctl' = c
  /\ f_parsed' = 0
  /\ f_skipped' = {}
  /\ f_found' = {}
  /\ f_count' = 0
  /\ f_new' = 0
  /\ UNCHANGED enqueued

\* scrape() of the events crawler up to the first listing page: it has no
\* force flag and keeps no listing URL in its set.
RunTopEvents ==
  /\ f_phase \in {"none", "done"}
  /\ f_runs < MaxRuns
  /\ f_runs' = f_runs + 1
  /\ f_kind' = "events"
  /\ f_force' = FALSE
  /\ \E clear \in BOOLEAN, links \in PageLinks, c \in ControlsOf(1) :
       /\ visited' = [visited EXCEPT ![VisitedKey("events")] = IF clear THEN {} ELSE @]
       /\ f_start' = IF clear THEN {} ELSE visited[VisitedKey("events")]
       /\ f_links' = links
       /\ f_ctl' = c
  /\ f_phase' = "links"
  /\ f_pages' = 1
  /\ f_parsed' = 0
  /\ f_skipped' = {}
  /\ f_found' = {}
  /\ f_count' = 0
  /\ f_new' = 0
  /\ UNCHANGED << ever_visited, enqueued >>

\* Whether __parse_links_on_page enqueues a task for the link.
Enqueues_Always(k, url, force) == TRUE

Enqueues(k, url, force) == ~is_visited(k, url)

\* One turn of the loop of __parse_links_on_page, in either crawler: a link
\* that is not in the visited set is marked and a task is enqueued for it.
ParseLink ==
  /\ f_phase = "links"
  /\ f_links # << >>
  /\ LET k == VisitedKey(f_kind)
         url == Head(f_links)
     IN IF Enqueues(k, url, f_force)
          THEN /\ mark_visited(k, url)
               /\ enqueued' = [enqueued EXCEPT ![k][url] = @ + 1]
               /\ f_new' = f_new + 1
               /\ UNCHANGED f_skipped
          ELSE /\ f_skipped' = f_skipped \cup {url}
               /\ UNCHANGED << visited, ever_visited, enqueued, f_new >>
  /\ f_links' = Tail(f_links)
  /\ f_found' = f_found \cup {Head(f_links)}
  /\ f_count' = f_count + 1
  /\ UNCHANGED << f_phase, f_kind, f_force, f_pages, f_ctl, f_parsed, f_start, f_runs >>

\* The links of the page are done. The class of the control was read after
\* the links on the first page and before them on a later one. While it is
\* there and not inactive the crawler clicks it and reads the control of the
\* page that comes up, then goes through that page's links; a read that
\* raises ends the run in the except clause of the crawler.
NextPage ==
  /\ f_phase = "links"
  /\ f_links = << >>
  /\ f_parsed' = f_parsed + 1
  /\ IF ControlRead(f_ctl) = "active"
       THEN \E c \in ControlsOf(f_pages + 1), links \in PageLinks :
              /\ f_pages' = f_pages + 1
              /\ f_ctl' = c
              /\ IF ControlRead(c) = "raises"
                   THEN f_phase' = "done" /\ f_links' = << >>
                   ELSE f_links' = links /\ UNCHANGED f_phase
       ELSE /\ f_phase' = "done"
            /\ UNCHANGED << f_pages, f_links, f_ctl >>
  /\ UNCHANGED << visited, ever_visited, enqueued, f_kind, f_force, f_skipped,
                  f_start, f_found, f_count, f_new, f_runs >>

NextFrontier ==
  \/ RunFrontier /\ UNCHANGED non_frontier_vars
  \/ RunTopEvents /\ UNCHANGED non_frontier_vars
  \/ ParseLink /\ UNCHANGED non_frontier_vars
  \/ NextPage /\ UNCHANGED non_frontier_vars

\* ------------------------------------------------- overlapping crawl runs
NCrawlers == 2         \* crawl runs (processes) alive at the same time

Crawlers == 1..NCrawlers

\* Crawl runs that have not started.
CrawlersUnused ==
  /\ c_pc = [c \in Crawlers |-> "idle"]
  /\ c_kind = [c \in Crawlers |-> "matches"]
  /\ c_force = [c \in Crawlers |-> FALSE]
  /\ c_clear = [c \in Crawlers |-> FALSE]
  /\ c_links = [c \in Crawlers |-> << >>]
  /\ c_pages = [c \in Crawlers |-> 0]
  /\ c_marked = [c \in Crawlers |-> FALSE]
  /\ c_found = [c \in Crawlers |-> {}]

\* The order of the two calls that follow a failed membership test in
\* __parse_links_on_page: frontier.py adds the URL to the set and then sends
\* the task, top_events_frontier.py sends the task and then adds the URL.
MarksBeforeDelay(f) == f = "matches"

\* run_frontier / scrape up to the first listing page, as RunFrontier and
\* RunTopEvents, in a process of its own.
CrawlStart(c) ==
  /\ c_pc[c] = "idle"
  /\ \E f \in Frontiers, force \in BOOLEAN, clear \in BOOLEAN, url \in Listings,
        links \in PageLinks :
       LET k == VisitedKey(f)
           before == IF clear THEN {} ELSE visited[k]
       IN /\ f = "events" => ~force
          /\ c_kind' = [c_kind EXCEPT ![c] = f]
          /\ c_force' = [c_force EXCEPT ![c] = force]
          /\ c_clear' = [c_clear EXCEPT ![c] = clear]
          /\ IF f = "matches" /\ ~force /\ url \in before
               THEN /\ visited' = [visited EXCEPT ![k] = before]
                    /\ c_pc' = [c_pc EXCEPT ![c] = "done"]
                    /\ UNCHANGED << ever_visited, c_links, c_pages, c_found >>
               ELSE /\ visited' = [visited EXCEPT ![k] =
                                     IF f = "matches" THEN before \cup {url} ELSE before]
                    /\ ever_visited' = [ever_visited EXCEPT ![k] =
                                     IF f = "matches" THEN @ \cup {url} ELSE @]
                    /\ c_pc' = [c_pc EXCEPT ![c] = "check"]
                    /\ c_links' = [c_links EXCEPT ![c] = links]
                    /\ c_pages' = [c_pages EXCEPT ![c] = 1]
                    /\ c_found' = [c_found EXCEPT ![c] = Range(links)]
  /\ UNCHANGED << enqueued, c_marked >>

\* The membership test of the loop of __parse_links_on_page: a link in the
\* visited set is skipped, any other goes on to be marked and enqueued.
LinkCheck(c) ==
  /\ c_pc[c] = "check"
  /\ c_links[c] # << >>
  /\ IF is_visited(VisitedKey(c_kind[c]), Head(c_links[c]))
       THEN /\ c_links' = [c_links EXCEPT ![c] = Tail(@)]
            /\ UNCHANGED c_pc
       ELSE /\ c_pc' = [c_pc EXCEPT ![c] =
                          IF MarksBeforeDelay(c_kind[c]) THEN "mark" ELSE "delay"]
            /\ UNCHANGED c_links
  /\ c_marked' = [c_marked EXCEPT ![c] = FALSE]
  /\ UNCHANGED << visited, ever_visited, enqueued, c_kind, c_force, c_clear,
                  c_pages, c_found >>

\* mark_visited / sadd of the link.
LinkMark(c) ==
  /\ c_pc[c] = "mark"
  /\ mark_visited(VisitedKey(c_kind[c]), Head(c_links[c]))
  /\ c_marked' = [c_marked EXCEPT ![c] = TRUE]
  /\ IF MarksBeforeDelay(c_kind[c])
       THEN /\ c_pc' = [c_pc EXCEPT ![c] = "delay"]
            /\ UNCHANGED c_links
       ELSE /\ c_pc' = [c_pc EXCEPT ![c] = "check"]
            /\ c_links' = [c_links EXCEPT ![c] = Tail(@)]
  /\ UNCHANGED << enqueued, c_kind, c_force, c_clear, c_pages, c_found >>

\* full_match.delay / process_event.delay of the link.
LinkDelay(c) ==
  /\ c_pc[c] = "delay"
  /\ enqueued' = [enqueued EXCEPT ![VisitedKey(c_kind[c])][Head(c_links[c])] = @ + 1]
  /\ IF MarksBeforeDelay(c_kind[c])
       THEN /\ c_pc' = [c_pc EXCEPT ![c] = "check"]
            /\ c_links' = [c_links EXCEPT ![c] = Tail(@)]
       ELSE /\ c_pc' = [c_pc EXCEPT ![c] = "mark"]
            /\ UNCHANGED c_links
  /\ UNCHANGED << visited, ever_visited, c_kind, c_force, c_clear, c_pages,
                  c_marked, c_found >>

\* The links of the page are done: pagination-next or the end of the run.
CrawlNextPage(c) ==
  /\ c_pc[c] = "check"
  /\ c_links[c] = << >>
  /\ \/ /\ c_pages[c] < MaxListingPages
        /\ c_pages' = [c_pages EXCEPT ![c] = @ + 1]
        /\ \E links \in PageLinks :
             /\ c_links' = [c_links EXCEPT ![c] = links]
             /\ c_found' = [c_found EXCEPT ![c] = @ \cup Range(links)]
        /\ UNCHANGED c_pc
     \/ /\ c_pc' = [c_pc EXCEPT ![c] = "done"]
        /\ UNCHANGED << c_pages, c_links, c_found >>
  /\ UNCHANGED << visited, ever_visited, enqueued, c_kind, c_force, c_clear,
                  c_marked >>

StepCrawler(c) ==
  \/ CrawlStart(c) /\ UNCHANGED non_crawler_vars
  \/ LinkCheck(c) /\ UNCHANGED non_crawler_vars
  \/ LinkMark(c) /\ UNCHANGED non_crawler_vars
  \/ LinkDelay(c) /\ UNCHANGED non_crawler_vars
  \/ CrawlNextPage(c) /\ UNCHANGED non_crawler_vars

NextCrawlers == \E c \in Crawlers : StepCrawler(c)

\* --------------------------------------------------- a .delay() that raises
\* A turn of the loop of __parse_links_on_page on a link that is not in the
\* visited set, in which .delay() raises (the broker cannot be reached): what
\* the crawler does before the call is done, what follows it is not, and
\* the exception ends the run in the except clause of the crawler.
DelayRaises ==
  /\ f_phase = "links"
  /\ f_links # << >>
  /\ LET k == VisitedKey(f_kind)
         url == Head(f_links)
     IN /\ Enqueues(k, url, f_force)
        /\ IF MarksBeforeDelay(f_kind)
             THEN mark_visited(k, url)
             ELSE UNCHANGED << visited, ever_visited >>
  /\ f_phase' = "done"
  /\ f_links' = << >>
  /\ f_found' = f_found \cup {Head(f_links)}
  /\ f_count' = f_count + 1
  /\ UNCHANGED << enqueued, f_kind, f_force, f_pages, f_ctl, f_parsed, f_skipped,
                  f_start, f_new, f_runs >>

NextFrontierFaults ==
  \/ NextFrontier
  \/ DelayRaises /\ UNCHANGED non_frontier_vars

\* ------------------------------------------ full_match tasks and their pages
NFullMatches == 2      \* process_full_match coroutines on the loop at once
NMaps == 2             \* maps of one match
MaxPoolLimit == 2      \* largest max_amount_of_concurrent_pages

FullMatches == 1..NFullMatches
Maps == 1..NMaps

\* No full_match coroutine is on the loop.
ScopesUnused ==
  /\ fm_pc = [m \in FullMatches |-> "start"]
  /\ fm_holds = [m \in FullMatches |-> FALSE]
  /\ map_pc = [m \in FullMatches |-> [j \in Maps |-> "none"]]
  /\ pool_limit = 1

\* The worker's pool can hold any number of pages up to the bound.
ScopesInit ==
  /\ fm_pc = [m \in FullMatches |-> "start"]
  /\ fm_holds = [m \in FullMatches |-> FALSE]
  /\ map_pc = [m \in FullMatches |-> [j \in Maps |-> "none"]]
  /\ pool_limit \in 1..MaxPoolLimit

\* Pages that coroutines have got from the pool and not given back.
PagesOut ==
  Cardinality({m \in FullMatches : fm_holds[m]})
    + Cardinality({c \in FullMatches \X Maps : map_pc[c[1]][c[2]] = "page"})

\* pool.acquire() returns a page once the pool has one to give: a free one, or
\* a new one while fewer than max_amount_of_concurrent_pages are out.
PageAvailable == PagesOut < pool_limit

\* Mutant of ListingReleasedBeforeFanout: the gather runs inside the scope.
ListingReleasedBeforeFanout_Nested == FALSE

\* In get_players_maps_stats the `async with pool.get_page()` block of the
\* listing page ends before asyncio.gather starts the per-map coroutines.
ListingReleasedBeforeFanout == TRUE

\* process_full_match is called and reaches `async with page_pool.get_page()`.
FullMatchStart(m) ==
  /\ fm_pc[m] = "start"
  /\ fm_pc' = [fm_pc EXCEPT ![m] = "primary_wait"]
  /\ UNCHANGED << fm_holds, map_pc, pool_limit >>

\* acquire() returns: the primary page of process_full_match or the listing
\* page of get_players_maps_stats.
FullMatchAcquire(m) ==
  /\ fm_pc[m] \in {"primary_wait", "listing_wait"}
  /\ PageAvailable
  /\ fm_pc' = [fm_pc EXCEPT ![m] = IF @ = "primary_wait" THEN "primary" ELSE "listing"]
  /\ fm_holds' = [fm_holds EXCEPT ![m] = TRUE]
  /\ UNCHANGED << map_pc, pool_limit >>

\* The block of the primary page ends, normally or with an exception of an
\* extraction or insert: the page is released; the coroutine goes on to
\* process_player_stats or ends in its except clause.
PrimaryDone(m) ==
  /\ fm_pc[m] = "primary"
  /\ fm_holds' = [fm_holds EXCEPT ![m] = FALSE]
  /\ \E ok \in BOOLEAN :
       fm_pc' = [fm_pc EXCEPT ![m] = IF ok THEN "listing_wait" ELSE "done"]
  /\ UNCHANGED << map_pc, pool_limit >>

\* The map links are collected from the listing page (or the block raises):
\* the block of the page ends and gather starts one coroutine per map link.
ListingDone(m) ==
  /\ fm_pc[m] = "listing"
  /\ \E ok \in BOOLEAN, n \in 0..NMaps :
       IF ok
         THEN /\ fm_pc' = [fm_pc EXCEPT ![m] = "gather"]
              /\ fm_holds' = [fm_holds EXCEPT ![m] = ~ListingReleasedBeforeFanout]
              /\ map_pc' = [map_pc EXCEPT ![m] =
                              [j \in Maps |-> IF j <= n THEN "wait" ELSE "none"]]
         ELSE /\ fm_pc' = [fm_pc EXCEPT ![m] = "done"]
              /\ fm_holds' = [fm_holds EXCEPT ![m] = FALSE]
              /\ UNCHANGED map_pc
  /\ UNCHANGED pool_limit

\* process_map_with_page: acquire() returns a page for the map.
MapAcquire(m, j) ==
  /\ map_pc[m][j] = "wait"
  /\ PageAvailable
  /\ map_pc' = [map_pc EXCEPT ![m][j] = "page"]
  /\ UNCHANGED << fm_pc, fm_holds, pool_limit >>

\* process_map_with_page: __process_map returns or raises, the page is released.
MapDone(m, j) ==
  /\ map_pc[m][j] = "page"
  /\ map_pc' = [map_pc EXCEPT ![m][j] = "done"]
  /\ UNCHANGED << fm_pc, fm_holds, pool_limit >>

\* Every coroutine of the gather has ended: get_players_maps_stats returns
\* and process_full_match goes on to its commit or rollback.
GatherDone(m) ==
  /\ fm_pc[m] = "gather"
  /\ \A j \in Maps : map_pc[m][j] \in {"none", "done"}
  /\ fm_pc' = [fm_pc EXCEPT ![m] = "done"]
  /\ fm_holds' = [fm_holds EXCEPT ![m] = FALSE]
  /\ map_pc' = [map_pc EXCEPT ![m] = [j \in Maps |-> "none"]]
  /\ UNCHANGED pool_limit

StepFullMatch(m) ==
  \/ FullMatchStart(m) /\ UNCHANGED non_scope_vars
  \/ FullMatchAcquire(m) /\ UNCHANGED non_scope_vars
  \/ PrimaryDone(m) /\ UNCHANGED non_scope_vars
  \/ ListingDone(m) /\ UNCHANGED non_scope_vars
  \/ \E j \in Maps : MapAcquire(m, j) /\ UNCHANGED non_scope_vars
  \/ \E j \in Maps : MapDone(m, j) /\ UNCHANGED non_scope_vars
  \/ GatherDone(m) /\ UNCHANGED non_scope_vars

NextFullMatches == \E m \in FullMatches : StepFullMatch(m)

\* ------------------------------------------------------------ specifications
Step(p) ==
  \/ GetPageCall(p) /\ UNCHANGED non_pool_vars
  \/ ContextCheck(p) /\ UNCHANGED non_pool_vars
  \/ RotateClosePages(p) /\ UNCHANGED non_pool_vars
  \/ RotateCloseContext(p) /\ UNCHANGED non_pool_vars
  \/ RotateNewContext(p) /\ UNCHANGED non_pool_vars
  \/ AcquireBody(p) /\ UNCHANGED non_pool_vars
  \/ NewPageDone(p) /\ UNCHANGED non_pool_vars
  \/ ScopeExit(p) /\ UNCHANGED non_pool_vars
  \/ ScopeReturn(p) /\ UNCHANGED non_pool_vars
  \/ ReleaseEntry(p) /\ UNCHANGED non_pool_vars
  \/ ReleaseClosed(p) /\ UNCHANGED non_pool_vars
  \/ ReleaseRequeue(p) /\ UNCHANGED non_pool_vars

Next == \E p \in Procs : Step(p)

\* A constructed pool in a process whose worker side is not looked at.
InitPool == Init /\ WorkerUnused /\ FrontierUnused /\ CrawlersUnused /\ ShutdownUnused /\ StoreUnused /\ ScopesUnused

\* Callers that use the pool through get_page only.
Spec == InitPool /\ [][Next]_vars

NextShutdown == Next \/ (Shutdown /\ UNCHANGED non_pool_vars)

\* The same callers, with the worker's shutdown running at any time.
SpecShutdown == InitPool /\ [][NextShutdown]_vars

NextMisuse == Next \/ (\E p \in Procs : ReleaseAgain(p) /\ UNCHANGED non_pool_vars)

\* Callers that may also release a handle a second time.
SpecMisuse == InitPool /\ [][NextMisuse]_vars

InitWorkerProcess == PoolUnused /\ WorkerInit /\ FrontierUnused /\ CrawlersUnused /\ ShutdownUnused /\ StoreUnused /\ ScopesUnused

\* A worker process: init_worker and the task entry points on its threads.
SpecWorker == InitWorkerProcess /\ [][NextWorker]_vars

InitFrontier == PoolUnused /\ WorkerUnused /\ FrontierUnused /\ CrawlersUnused /\ ShutdownUnused /\ StoreUnused /\ ScopesUnused

\* Crawl runs of the two frontiers, one after another.
SpecFrontier == InitFrontier /\ [][NextFrontier]_vars

\* A worker process from its start to the return of shutdown_worker; the
\* handler and its coroutine are not starved.
SpecWorkerShutdown ==
  InitWorkerProcess /\ [][NextWorkerShutdown]_vars /\ WF_vars(ShutdownSteps)

\* Task messages written to the database one after another.
SpecStore == InitFrontier /\ [][NextStore]_vars

\* Crawl runs in processes of their own, against the same Redis.
SpecCrawlers == InitFrontier /\ [][NextCrawlers]_vars

\* full_match coroutines on the loop of an initialized worker.
InitFullMatches ==
  PoolUnused /\ WorkerUnused /\ FrontierUnused /\ CrawlersUnused /\ ShutdownUnused
    /\ StoreUnused /\ ScopesInit

SpecFullMatches == InitFullMatches /\ [][NextFullMatches]_vars

\* Crawl runs one after another, with a broker that can refuse a task.
SpecFrontierFaults == InitFrontier /\ [][NextFrontierFaults]_vars

\* ------------------------------------------------------------------ claims
NoDuplicates(q) == \A i, j \in DOMAIN q : i # j => q[i] # q[j]

Acquiring(p) == pc[p] \in {"ctx_wait", "rot_closing", "rot_ctx_close", "rot_new_ctx",
                           "acq_wait", "acq_new_page", "acq_get"}

Releasing(p) == pc[p] \in {"rel_wait", "rel_close", "rel_goto", "rel_put"}

Rotating(p) == pc[p] \in {"rot_closing", "rot_ctx_close", "rot_new_ctx"}

\* The caller of p holds a handle: acquire returned it and release has not
\* yet requeued or closed it.
Holds(p) == pc[p] = "body" \/ Releasing(p)

\* In this step acquire returns a handle to p.
Returned(p) == Acquiring(p) /\ pc'[p] = "body"

\* In this step p's release puts its handle on the free queue.
Requeued(p) == pc[p] \in {"rel_goto", "rel_put"} /\ free_pages' = Append(free_pages, page[p])

\* C1: when an acquire waits on the empty free queue of a pool at capacity, a
\* holder's release can complete (and then serve it): the waiting acquire
\* never keeps the releasing holder waiting for the pool's lock.
C1_BlockedAcquireLetsHolderRelease ==
  ~ \E p, q \in Procs :
      /\ pc[p] = "acq_get"
      /\ free_pages = << >>
      /\ current_page_count = max_amount_of_concurrent_pages
      /\ lock_owner = p
      /\ pc[q] = "rel_wait"

\* C2: current_page_count never exceeds max_amount_of_concurrent_pages.
C2_CountAtMostMax == current_page_count <= max_amount_of_concurrent_pages

\* C2 witness: the pool grew to its maximum by creating a page after a rotation.
C2_Witness ==
  /\ browser_context > 1
  /\ current_page_count = max_amount_of_concurrent_pages
  /\ current_page_count > initial_page_size
  /\ \E p \in Procs : pc[p] = "body" /\ page_ctx[page[p]] = browser_context

\* C3: with every acquired handle released exactly once, current_page_count
\* never goes negative.
C3_CountNotNegative == current_page_count >= 0

\* C4: no handle is held by two callers at once, and no handle is in the free
\* queue while a caller holds it.
C4_ExclusiveOwnership ==
  /\ \A p, q \in Procs : (p # q /\ Holds(p) /\ Holds(q)) => page[p] # page[q]
  /\ \A p \in Procs : Holds(p) => page[p] \notin Range(free_pages)

\* C4 witness: two callers hold handles while a released handle is back in the
\* free queue.
C4_Witness ==
  /\ \E p, q \in Procs : p # q /\ pc[p] = "body" /\ pc[q] = "body"
  /\ free_pages # << >>
  /\ \E r \in Procs : pc[r] = "done" /\ page[r] \in Range(free_pages)

C6_RotationAfterExactlyBudget ==
  \A p \in Procs : Rotating(p) => gen_acquisitions = max_operations_per_context

\* C7: a handle returned by acquire belongs to the current browser context, and
\* release never requeues a handle of a retired context.
C7_NoStaleHandle ==
  [][\A p \in Procs :
       /\ Returned(p) => page_ctx'[page'[p]] = browser_context'
       /\ Requeued(p) => page_ctx[page[p]] = browser_context
    ]_vars

\* C7 witness: a caller still holds a handle of a retired context while another
\* has been served from the new context, and the free queue holds a requeued page.
C7_Witness ==
  /\ \E p \in Procs : pc[p] = "done" /\ page[p] # NoPage
                        /\ page_ctx[page[p]] < browser_context
                        /\ page[p] \notin Range(free_pages)
  /\ \E q \in Procs : pc[q] = "body" /\ page_ctx[page[q]] = browser_context
  /\ free_pages # << >>

\* C8: a second release of a handle leaves current_page_count unchanged and
\* does not put the handle in the free queue twice.
C8_SecondReleaseHarmless ==
  [][\A p \in Procs :
       (release_calls[p] = 2 /\ pc'[p] # pc[p]) =>
          (current_page_count' = current_page_count /\ NoDuplicates(free_pages'))
    ]_vars

\* C9: get_page calls release exactly once for an acquired handle however the
\* scope is left (return, exception, cancellation), and not at all when
\* acquire failed.
C9_ScopeReleasesExactlyOnce ==
  \A p \in Procs :
    /\ (Releasing(p) \/ pc[p] = "done") =>
          release_calls[p] = (IF page[p] # NoPage THEN 1 ELSE 0)
    /\ (Acquiring(p) \/ pc[p] \in {"body", "acq_failed", "idle"}) => release_calls[p] = 0

\* C9 witness: one scope is over after its handle was released, another after
\* its acquire failed.
C9_Witness ==
  \E p, q \in Procs :
    /\ pc[p] = "done" /\ page[p] # NoPage /\ release_calls[p] = 1
    /\ pc[q] = "done" /\ page[q] = NoPage /\ release_calls[q] = 0

\* C10: an acquire begun after close_all_pages has shut the pool down neither
\* creates a page, nor blocks on the free queue, nor returns a handle.
C10_AcquireAfterShutdownFails ==
  \A p \in Procs : late[p] => pc[p] \notin {"acq_new_page", "acq_get", "body"}

\* C11: once close_all_pages has finished, every handle of the pool is closed,
\* those checked out by callers included, and the live count is zero.
C11_ShutdownClosesEveryHandle ==
  sd_pc = "done" => /\ DOMAIN page_ctx \subseteq closed
                    /\ current_page_count = 0

\* ------------------------------------------------------- claims: the worker
\* Every global of the bootstrap is set.
AllConstructed == \A r \in Resources : globals[r]

\* The thread's call of ensure_initialized has returned.
EnsureReturned(t) == tpc[t] \in {"init_ok", "op"}

\* The committed rows of a task.
RowsOf(i) == {e \in store : e[1] = i}

\* C12: among concurrent calls of ensure_initialized at most one bootstrap
\* runs or has succeeded, so with no failure the bootstrap runs once; only a
\* bootstrapping thread holds the lock; and every call that has returned
\* sees the ready flag with all the shared resources constructed.
C12_SingleInitialization ==
  /\ bootstraps <= boot_failures + 1
  /\ boot_failures = 0 /\ is_initialized => bootstraps = 1
  /\ init_lock # NoThread => tpc[init_lock] = "boot"
  /\ \A t \in Threads : EnsureReturned(t) => is_initialized /\ AllConstructed

\* Two calls raced: one has bootstrapped and returned, the other passed the
\* fast check before that and now waits for the lock.
C12_Witness ==
  /\ boot_failures = 0 /\ bootstraps = 1 /\ is_initialized
  /\ \E t, u \in Threads : tpc[t] = "lock_wait" /\ EnsureReturned(u)

\* C13: a bootstrap that raised leaves the flag unset, so the flag is set
\* only by a bootstrap that ran to its end; the failure reaches the caller;
\* a call made after a failure bootstraps again; and a failure in
\* init_worker leaves the worker process up.
C13_RetryableInitialization ==
  /\ is_initialized => /\ bootstraps = boot_failures + 1
                       /\ AllConstructed
  /\ \A t \in Threads : tpc[t] = "init_raised" => init_failed[t]
  /\ \A t \in Threads : init_failed[t] => boot_failures > 0
  /\ \A t \in Threads :
       EnsureReturned(t) /\ boot_failures > 0 => bootstraps > boot_failures
  /\ worker_up

\* A bootstrap failed in init_worker and a later call has bootstrapped again
\* and returned.
C13_Witness ==
  /\ init_worker_called /\ boot_failures = 1 /\ bootstraps = 2 /\ is_initialized
  /\ \E t \in Threads : tpc[t] = "op"

\* C14: a task is attempted at most MaxRetries + 1 times; a task all of whose
\* attempts ended in a transient error never reports success, is re-enqueued
\* while it has been attempted at most MaxRetries times, and has failed only
\* after exactly MaxRetries + 1 attempts.
C14_RetryExhaustion ==
  \A i \in Tasks :
    /\ attempts[i] <= MaxRetries + 1
    /\ only_transient[i] =>
         /\ status[i] # "noop"
         /\ status[i] = "queued" => attempts[i] = retries[i] /\ attempts[i] <= MaxRetries
         /\ status[i] = "failure" => attempts[i] = MaxRetries + 1

\* A task has failed after four attempts that all ended in a transient error.
C14_Witness ==
  \E i \in Tasks :
    only_transient[i] /\ status[i] = "failure" /\ attempts[i] = MaxRetries + 1

\* C15: when ensure_initialized raises inside a task of any kind, the task
\* calls self.retry, which re-enqueues it with one more retry counted or,
\* with none left, fails it; the attempt submits nothing to the loop and
\* writes nothing.
C15_InitFailureRetries ==
  [][\A t \in Threads :
       tpc[t] = "init_raised" /\ cur[t] # NoTask /\ tpc'[t] # tpc[t] =>
         /\ tpc'[t] = "idle"
         /\ IF retries[cur[t]] < MaxRetries
              THEN /\ status'[cur[t]] = "queued"
                   /\ retries'[cur[t]] = retries[cur[t]] + 1
              ELSE /\ status'[cur[t]] = "failure"
                   /\ retries'[cur[t]] = retries[cur[t]]
         /\ store' = store]_vars

\* A task was re-enqueued because ensure_initialized raised in its attempt.
C15_Witness ==
  \E t \in Threads, i \in Tasks :
    /\ init_failed[t] /\ tpc[t] = "idle" /\ init_worker_called = FALSE
    /\ status[i] = "queued" /\ retries[i] = 1 /\ attempts[i] = 1

\* C16: a task of any kind whose operation raised VetoBoxNotFoundError is not
\* retried: it has completed as a no-op success.
C16_VetoNeverRetried ==
  \A i \in Tasks : veto_raised[i] => status[i] = "noop"

\* C17: a full_match task in which a step raised VetoBoxNotFoundError has
\* returned the no-op marker, was not re-enqueued, and has left no row in the
\* store.
C17_FullMatchVetoIsNoop ==
  \A i \in Tasks :
    task_kind[i] = "full_match" /\ veto_raised[i] =>
      /\ status[i] = "noop"
      /\ RowsOf(i) = {}

\* A full_match task ended as a no-op by VetoBoxNotFoundError raised after
\* rows had been written in the transaction.
C17_Witness ==
  \E i \in Tasks :
    /\ task_kind[i] = "full_match" /\ veto_raised[i] /\ rolled_back[i]
    /\ status[i] = "noop" /\ attempts[i] = 1

\* C18: the store holds rows of a full_match task only once an attempt has
\* run every step and committed, and then it holds exactly the rows of that
\* attempt: no row of an attempt that failed is in the store.
C18_AtomicItemCommit ==
  \A i \in Tasks :
    task_kind[i] = "full_match" =>
      RowsOf(i) = IF status[i] = "success"
                    THEN Tagged(i, {Steps("full_match")[n] : n \in 1..Len(Steps("full_match"))})
                    ELSE {}

\* A full_match attempt failed after writing rows and nothing of it is in
\* the store, while the task waits for its retry.
C18_Witness ==
  \E i \in Tasks :
    /\ task_kind[i] = "full_match" /\ rolled_back[i]
    /\ status[i] = "queued" /\ RowsOf(i) = {}

\* C34: the process starts at most one loop thread, whatever the number of
\* concurrent, failed and repeated calls of ensure_initialized, and the
\* coroutine of every task runs on that loop.
C34_OneLoopThread ==
  /\ started["event_loop"] <= 1
  /\ \A t \in Threads :
       tpc[t] = "op" => globals["event_loop"] /\ started["event_loop"] = 1

\* A task's coroutine runs on the loop after one bootstrap has failed and a
\* second one has succeeded.
C34_Witness ==
  /\ boot_failures = 1
  /\ bootstraps = 2
  /\ is_initialized
  /\ started["event_loop"] = 1
  /\ \E t \in Threads : tpc[t] = "op"

\* C39: at any time the process has at most one Playwright instance, one
\* browser and one page pool open: what a failed bootstrap created does not
\* stay open next to what a later bootstrap creates.
C39_SingletonResources ==
  \A r \in {"playwright_instance", "browser", "page_pool"} : started[r] <= 1

\* C35: in process_full_match no insert has been executed on the connection
\* while an extraction of the match is still to succeed.
C35_PersistAfterExtract ==
  \A t \in Threads :
    tpc[t] = "op" /\ task_kind[cur[t]] = "full_match" /\ tx[t] # {}
      => op_step[t] = Len(Steps("full_match")) + 1

\* ----------------------------------------------- claims: the pool, continued
\* In this step the release of p's handle ends, by returning or by raising.
ReleaseEnds(p) == Releasing(p) /\ pc'[p] = "done"

\* C27: when the scope of a task is left, after a failure of the task or of
\* the reset navigation of release, the release ends with the handle back
\* in the free queue, or closed and no longer counted.
C27_FailureLeavesPoolIntact ==
  [][\A p \in Procs :
       ReleaseEnds(p) =>
         \/ page[p] \in Range(free_pages') /\ current_page_count' = current_page_count
         \/ page[p] \in closed' /\ current_page_count' = current_page_count - 1
    ]_vars

\* C28: the free queue never holds more handles than current_page_count.
C28_FreeAtMostCount == Len(free_pages) <= current_page_count

\* C29: a handle is free, in use or closed and never two of these: a handle
\* a caller holds is neither closed nor in the free queue, and no handle in
\* the free queue is closed.
C29_HeldHandleNeverClosed ==
  /\ \A p \in Procs : pc[p] = "body" =>
        page[p] \notin closed /\ page[p] \notin Range(free_pages)
  /\ Range(free_pages) \cap closed = {}

\* The callers inside a get_page scope whose handle is open in the browser
\* (a handle of a retired context is closed and not counted here).
CheckedOut == {p \in Procs : pc[p] = "body" /\ page[p] \notin closed}

\* C30: at most max_amount_of_concurrent_pages handles are checked out by
\* concurrent get_page scopes at any time, rotations included.
C30_AdmissionControl ==
  Cardinality(CheckedOut) <= max_amount_of_concurrent_pages

\* The step changes the operation counter, the live count or the free queue.
PoolMutated ==
  \/ operation_amount_in_current_context' # operation_amount_in_current_context
  \/ current_page_count' # current_page_count
  \/ free_pages' # free_pages

\* The step is made by a coroutine inside `async with self._lock`: it holds
\* the lock before or after the step, or it took the free lock and left it
\* again within the step.
UnderLock ==
  \/ lock_owner # NoProc
  \/ lock_owner' # NoProc
  \/ \E p \in Procs : pc'[p] # pc[p]

\* C31: the operation counter, the live count and the free queue change
\* only in steps made under the pool's lock, the draining of the free queue
\* by close_all_pages at worker shutdown included.
C31_MutationsUnderLock == [][PoolMutated => UnderLock]_vars

\* C32: the pool's minimum_page_size is the clamped one: a value given as
\* <= 0 or > initial_page_size has become initial_page_size, so the value
\* release compares the free queue with lies in 1..initial_page_size.
C32_MinimumClamped ==
  minimum_page_size >= 1 /\ minimum_page_size <= initial_page_size

\* In this step p's rotation ends: the new context and its pages are in place.
RotationEnds(p) == pc[p] = "rot_new_ctx" /\ pc'[p] # "rot_new_ctx"

\* C33: right after a rotation the operation counter is 0, the pages of the
\* retired context are closed and none of them is in the free queue, the
\* free queue holds exactly initial_page_size open pages of the new context,
\* and current_page_count equals initial_page_size.
C33_RotationPostState ==
  [][\A p \in Procs :
       RotationEnds(p) =>
         /\ operation_amount_in_current_context' = 0
         /\ browser_context' # browser_context
         /\ PagesOf(browser_context) \subseteq closed'
         /\ Len(free_pages') = initial_page_size
         /\ NoDuplicates(free_pages')
         /\ \A i \in DOMAIN free_pages' :
              /\ page_ctx'[free_pages'[i]] = browser_context'
              /\ free_pages'[i] \notin closed'
         /\ current_page_count' = initial_page_size
    ]_vars

\* A rotation has just ended on a pool that had grown beyond its initial
\* size, while a caller still holds a page of the retired context.
C33_Witness ==
  /\ browser_context = 2
  /\ \E p \in Procs : pc[p] = "acq_wait" /\ lock_owner = p
  /\ initial_page_size < max_amount_of_concurrent_pages
  /\ Cardinality(PagesOf(1)) > initial_page_size
  /\ Len(free_pages) = initial_page_size
  /\ current_page_count = initial_page_size
  /\ operation_amount_in_current_context = 0
  /\ \E q \in Procs : pc[q] = "body" /\ page_ctx[page[q]] = 1

\* -------------------------------------------------- claims: worker shutdown
\* C24: shutdown_worker raises nothing to its caller and, once called,
\* returns: it does not wait for a cleanup() that never completes.
C24_ShutdownTerminates ==
  /\ [](~ws_raised)
  /\ (ws_pc # "idle") ~> (ws_pc = "returned")

\* C25: when a step of cleanup() has raised, shutdown_worker returns with
\* the error logged and nothing raised, every other resource that was set
\* closed, the loop stopped and its thread joined.
C25_ShutdownCompletesDespiteErrors ==
  ws_pc = "returned" /\ ws_failed # {} =>
    /\ ws_logged /\ ~ws_raised
    /\ \A r \in Range(CleanupSequence) : globals[r] /\ r \notin ws_failed => r \in ws_closed
    /\ loop_stopped /\ thread_joined

\* ----------------------------------------------------- claims: the database
\* The step commits a task message that was committed before with the same
\* extracted content.
RedeliveryCommits ==
  /\ s_commits' = s_commits + 1
  /\ s_done[s_item][s_kind] = s_ver

LinkProcessed == f_phase = "links" /\ f_links # << >> /\ f_links' = Tail(f_links)

\* A task is enqueued for URL u under visited key k in the step.
EnqueuedNow(k, u) == enqueued'[k][u] > enqueued[k][u]

\* C19 as stated: with force off, a link that is in the visited set is
\* skipped with no task enqueued and the set unchanged, and a URL that was
\* ever marked visited is not enqueued again by a run without force.
C19_VisitedNeverEnqueuedAgain ==
  [][/\ LinkProcessed /\ ~f_force /\ Head(f_links) \in visited[VisitedKey(f_kind)] =>
          enqueued' = enqueued /\ visited' = visited
     /\ \A k \in VisitedKeys, u \in Items :
          ~f_force /\ u \in ever_visited[k] => ~EnqueuedNow(k, u)]_vars

\* C19 as amended: with force off, a link that is in the visited set is
\* skipped with no task enqueued and the set unchanged, and a run without
\* force enqueues a URL only while the URL is not in the visited set: a URL
\* marked visited is enqueued again only after the set was cleared.
C19_VisitedSkippedUntilCleared ==
  [][/\ LinkProcessed /\ ~f_force /\ Head(f_links) \in visited[VisitedKey(f_kind)] =>
          enqueued' = enqueued /\ visited' = visited
     /\ \A k \in VisitedKeys, u \in Items :
          ~f_force /\ EnqueuedNow(k, u) => u \notin visited[k] /\ u \in visited'[k]]_vars

\* A second run without force has skipped a link that an earlier run had
\* marked and enqueued.
C19_Witness ==
  /\ f_runs = 2 /\ ~f_force /\ f_kind = "matches"
  /\ \E u \in f_skipped :
       /\ u \in visited[VisitedKey("matches")]
       /\ enqueued[VisitedKey("matches")][u] = 1

\* C20: in a run started with the force flag, a link that was already in
\* the visited set when the run began is enqueued again.
C20_ForceEnqueuesVisited ==
  [][LinkProcessed /\ f_force /\ Head(f_links) \in f_start =>
       EnqueuedNow(VisitedKey(f_kind), Head(f_links))]_vars

\* C23: a run without force over listing pages with n distinct item links,
\* k of them in the visited set when the run began, ends with n-k tasks
\* enqueued, k links skipped and the visited set of its namespace larger by
\* exactly n-k entries.
C23_GrowthEqualsEnqueued ==
  f_phase = "done" /\ ~f_force /\ f_count = Cardinality(f_found) =>
    LET n == Cardinality(f_found)
        k == Cardinality(f_found \cap f_start)
    IN /\ f_new = n - k
       /\ Cardinality(f_skipped) = k
       /\ Cardinality(visited[VisitedKey(f_kind)]) - Cardinality(f_start) = n - k

\* C36: a run that has opened its listing goes through the links of every
\* page it opens, from the first one to the one whose pagination-next
\* control is inactive or absent, each page once, and then ends.
C36_EveryPageParsed ==
  f_phase = "done" /\ f_pages >= 1 =>
    /\ f_ctl # "active"
    /\ f_parsed = f_pages

\* C37: every run opens its listing page and looks at its links, also when
\* an earlier run without force has crawled the same listing URL.
C37_RunOpensListing == f_phase = "done" => f_pages >= 1

\* C40: every item URL in a visited set has had a task enqueued for it, also
\* after a .delay() that raised.
C40_VisitedHasTask ==
  \A f \in Frontiers, u \in Items :
    u \in visited[VisitedKey(f)] => enqueued[VisitedKey(f)][u] >= 1

\* ------------------------------------------------ claims: pages of a task
\* The coroutine is suspended until the pool gives out a page: in acquire()
\* itself, or in the gather of coroutines of which one is in acquire().
WaitsForPage(m) ==
  \/ fm_pc[m] \in {"primary_wait", "listing_wait"}
  \/ fm_pc[m] = "gather" /\ \E j \in Maps : map_pc[m][j] = "wait"

\* C38: no coroutine of a task waits for a page of the pool while it holds a
\* page of the pool: the primary page and the listing page are released
\* before the per-map coroutines acquire theirs.
C38_NoHoldAndWait == \A m \in FullMatches : fm_holds[m] => ~WaitsForPage(m)

\* The pool is exhausted by per-map coroutines of two tasks while further
\* per-map coroutines of both wait for a page.
C38_Witness ==
  /\ pool_limit = 2
  /\ PagesOut = 2
  /\ \A m \in FullMatches :
       /\ fm_pc[m] = "gather"
       /\ map_pc[m][1] = "page"
       /\ map_pc[m][2] = "wait"

\* ------------------------------------------- claims: overlapping crawl runs
\* Every run has ended or has not started.
CrawlersQuiet == \A c \in Crawlers : c_pc[c] \in {"idle", "done"}

\* C21: when no run uses force or clears the set, an item URL found twice,
\* on one page, on two pages of a run or by two runs whose check and mark
\* steps interleave, has exactly one task enqueued in total: never more than
\* one, and one once the runs that found it have ended.
C21_AtMostOnceEnqueue ==
  (\A c \in Crawlers : ~c_force[c] /\ ~c_clear[c]) =>
    \A f \in Frontiers, u \in Items :
      /\ enqueued[VisitedKey(f)][u] <= 1
      /\ CrawlersQuiet /\ (\E c \in Crawlers : c_kind[c] = f /\ u \in c_found[c]) =>
           enqueued[VisitedKey(f)][u] = 1

\* C22: in both crawlers, a run sends the task of a link only after it has
\* added the link's URL to the visited set.
C22_MarkBeforeEnqueue ==
  [][\A c \in Crawlers :
       c_pc[c] = "delay" /\ c_pc'[c] # "delay" => c_marked[c]]_vars

====
